---- MODULE Spec2Model ----
(***************************************************************************)
(* Model of retryHTTP.execute (src/retry.go): the retry loop, the URL      *)
(* mutators it applies between attempts, the decorrelated-jitter backoff   *)
(* and the transport error classifier.                                     *)
(*                                                                         *)
(* Durations are counted in milliseconds (time.Duration counts             *)
(* nanoseconds; every duration the loop handles is a multiple of a         *)
(* millisecond, and the scale keeps the values inside TLC's integers).     *)
(***************************************************************************)
EXTENDS Integers, Sequences, FiniteSets, TLC

\* ------------------------------------------------------------------ bounds

\* Largest number of retries of one execute call that is explored.
MaxRetries == 2

\* --------------------------------------------------------------- constants

requestGUIDKey == "request_guid"
retryCountKey == "retryCount"
retryReasonKey == "retryReason"
clientStartTimeKey == "clientStartTime"
requestIDKey == "requestId"

\* A query pair whose key holds an invalid percent-escape: url.ParseQuery
\* reports an error for it and leaves the pair out of the parsed values.
BadEscapeKey == "%zz"

\* The keys that occur, in the byte order url.Values.Encode sorts them by.
KeyOrder ==
    <<clientStartTimeKey, requestIDKey, requestGUIDKey, retryCountKey, retryReasonKey>>

KeySet == {KeyOrder[i] : i \in 1..Len(KeyOrder)}

\* One time.Second, in the model's unit.
Second == 1000

StatusOK == 200

ConfigBoolTrue == "ConfigBoolTrue"
ConfigBoolFalse == "ConfigBoolFalse"

\* The path of the query-execution endpoint, as path segments.
queryRequestPath == <<"queries", "v1", "query-request">>

\* ------------------------------------------------------------ url package

Pair(k, v) == [k |-> k, v |-> v]

\* url.ParseQuery: the error result (some pair is malformed).
ParseQueryFails(rawQuery) ==
    \E i \in 1..Len(rawQuery) : rawQuery[i].k = BadEscapeKey

\* url.ParseQuery: the url.Values result. Each key maps to its values in the
\* order they occur; malformed pairs are left out; a key that does not occur
\* maps to the empty sequence.
ParseQueryValues(rawQuery) ==
    [key \in KeySet |->
        LET s == SelectSeq(rawQuery, LAMBDA p : p.k = key)
        IN  [i \in 1..Len(s) |-> s[i].v]]

\* (*url.URL).Query: ParseQuery with the error dropped.
Query(u) == ParseQueryValues(u.RawQuery)

\* url.Values.Get: the first value of the key, "" when there is none.
Get(values, key) == IF values[key] = <<>> THEN "" ELSE values[key][1]

Has(values, key) == values[key] # <<>>

Del(values, key) == [values EXCEPT ![key] = <<>>]

Add(values, key, v) == [values EXCEPT ![key] = Append(@, v)]

RECURSIVE EncodeFrom(_, _)
EncodeFrom(values, i) ==
    IF i > Len(KeyOrder) THEN <<>>
    ELSE LET key == KeyOrder[i]
             vs == values[key]
         IN  [j \in 1..Len(vs) |-> Pair(key, vs[j])] \o EncodeFrom(values, i + 1)

\* url.Values.Encode: the pairs sorted by key.
Encode(values) == EncodeFrom(values, 1)

\* strings.HasPrefix on paths.
HasPrefix(path, prefix) ==
    /\ Len(path) >= Len(prefix)
    /\ SubSeq(path, 1, Len(prefix)) = prefix

\* strconv.Itoa / strconv.FormatInt(_, 10)
Itoa(n) == ToString(n)

\* ------------------------------------------------------------- URL mutators

NilMutator == [kind |-> "nil", urlValues |-> ParseQueryValues(<<>>)]

\* NewUUID().String(): the n-th identifier generated. Generated identifiers
\* are pairwise different and different from every identifier of the input.
NewUUID(n) == "uuid-" \o ToString(n)

transientReplace == [kind |-> "transientReplace", urlValues |-> ParseQueryValues(<<>>)]

newRequestGUIDReplace(u) ==
    IF ParseQueryFails(u.RawQuery) THEN transientReplace
    ELSE IF Get(ParseQueryValues(u.RawQuery), requestGUIDKey) = "" THEN transientReplace
    ELSE [kind |-> "requestGUIDReplace", urlValues |-> ParseQueryValues(u.RawQuery)]

\* requestGUIDReplace.replace: the replacer's urlValues afterwards.
requestGUIDReplace_replace(urlValues, uuid) ==
    Add(Del(urlValues, requestGUIDKey), requestGUIDKey, uuid)

isQueryRequest(u) == HasPrefix(u.Path, queryRequestPath)

transientRetryCountUpdater ==
    [kind |-> "transientRetryCountUpdater", urlValues |-> ParseQueryValues(<<>>)]

\* Mutant: the retry count is kept for every path.
newRetryCountUpdater_anyPath(u) ==
    IF ParseQueryFails(u.RawQuery) THEN transientRetryCountUpdater
    ELSE [kind |-> "retryCountUpdate", urlValues |-> ParseQueryValues(u.RawQuery)]

newRetryCountUpdater(u) ==
    IF ~isQueryRequest(u) THEN transientRetryCountUpdater
    ELSE IF ParseQueryFails(u.RawQuery) THEN transientRetryCountUpdater
    ELSE [kind |-> "retryCountUpdate", urlValues |-> ParseQueryValues(u.RawQuery)]

\* Mutant: the old retryCount is not deleted before the new one is added.
retryCountUpdate_replaceOrAdd_keepOld(urlValues, retry) ==
    Add(urlValues, retryCountKey, Itoa(retry))

\* retryCountUpdate.replaceOrAdd: the updater's urlValues afterwards.
retryCountUpdate_replaceOrAdd(urlValues, retry) ==
    Add(Del(urlValues, retryCountKey), retryCountKey, Itoa(retry))

transientRetryReasonUpdater ==
    [kind |-> "transientRetryReasonUpdater", urlValues |-> ParseQueryValues(<<>>)]

\* cfg is "nil" (no Config), or the Config's IncludeRetryReason.
newRetryReasonUpdater(u, cfg) ==
    IF ~isQueryRequest(u) THEN transientRetryReasonUpdater
    ELSE IF cfg # "nil" /\ cfg = ConfigBoolFalse THEN transientRetryReasonUpdater
    ELSE [kind |-> "retryReasonUpdate", urlValues |-> ParseQueryValues(<<>>)]

\* Mutant: the old retryReason is not deleted before the new one is added.
retryReasonUpdate_replaceOrAdd_keepOld(u, reason) ==
    [u EXCEPT !.RawQuery = Encode(Add(Query(u), retryReasonKey, Itoa(reason)))]

\* retryReasonUpdate.replaceOrAdd: the URL afterwards.
retryReasonUpdate_replaceOrAdd(u, reason) ==
    [u EXCEPT !.RawQuery =
        Encode(Add(Del(Query(u), retryReasonKey), retryReasonKey, Itoa(reason)))]

\* Mutant: an existing clientStartTime is overwritten.
ensureClientStartTimeIsSet_overwrite(u, clientStartTime) ==
    IF ~isQueryRequest(u) THEN u
    ELSE [u EXCEPT !.RawQuery =
            Encode(Add(Del(Query(u), clientStartTimeKey), clientStartTimeKey, clientStartTime))]

ensureClientStartTimeIsSet(u, clientStartTime) ==
    IF ~isQueryRequest(u) THEN u
    ELSE IF Has(Query(u), clientStartTimeKey) THEN u
    ELSE [u EXCEPT !.RawQuery = Encode(Add(Query(u), clientStartTimeKey, clientStartTime))]

\* The retry reason execute reports: the status of the response, 0 without one.
NilRes == [nil |-> TRUE, StatusCode |-> 0]
Response(status) == [nil |-> FALSE, StatusCode |-> status]

retryReasonOf(res) == IF ~res.nil THEN res.StatusCode ELSE 0

(* One pass of execute over the mutators, in the order of the code. All of   *)
(* them write the RawQuery of the one URL object they share. The result is   *)
(* the URL, the three mutators and the number of identifiers generated.      *)
ApplyMutators(u, gr, rc, rr, retryCounter, res, cfg, clientStartTime, uuids) ==
    LET gr1 == IF gr.kind = "nil" THEN newRequestGUIDReplace(u) ELSE gr
        gActive == gr1.kind = "requestGUIDReplace"
        uuids1 == IF gActive THEN uuids + 1 ELSE uuids
        gr2 == IF gActive
               THEN [gr1 EXCEPT !.urlValues = requestGUIDReplace_replace(@, NewUUID(uuids1))]
               ELSE gr1
        u1 == IF gActive THEN [u EXCEPT !.RawQuery = Encode(gr2.urlValues)] ELSE u
        rc1 == IF rc.kind = "nil" THEN newRetryCountUpdater(u1) ELSE rc
        cActive == rc1.kind = "retryCountUpdate"
        rc2 == IF cActive
               THEN [rc1 EXCEPT !.urlValues = retryCountUpdate_replaceOrAdd(@, retryCounter)]
               ELSE rc1
        u2 == IF cActive THEN [u1 EXCEPT !.RawQuery = Encode(rc2.urlValues)] ELSE u1
        rr1 == IF rr.kind = "nil" THEN newRetryReasonUpdater(u2, cfg) ELSE rr
        u3 == IF rr1.kind = "retryReasonUpdate"
              THEN retryReasonUpdate_replaceOrAdd(u2, retryReasonOf(res))
              ELSE u2
        u4 == ensureClientStartTimeIsSet(u3, clientStartTime)
    IN  [url |-> u4, gr |-> gr2, rc |-> rc2, rr |-> rr1, uuids |-> uuids1]

\* ------------------------------------------------------------------ backoff

waitBase == 5 * Second
waitCap == 160 * Second

durationMin(a, b) == IF a < b THEN a ELSE b

\* randSecondDuration(n): the values random.Int63n(n/time.Second) * time.Second
\* can take. Int63n panics when its argument is not positive: the empty set.
randSecondDuration(n) ==
    IF n \div Second <= 0 THEN {}
    ELSE {k * Second : k \in 0..((n \div Second) - 1)}

\* Mutant: the branch of t < 0 returns the draw alone.
decorr_drawOnly(attempt, sleep) ==
    LET t == 3 * sleep - waitBase
    IN  IF t > 0 THEN {durationMin(waitCap, d + waitBase) : d \in randSecondDuration(t)}
        ELSE IF t < 0 THEN {durationMin(waitCap, d) : d \in randSecondDuration(-t)}
        ELSE {waitBase}

\* Mutant: the branch of t < 0 adds the draw to base, as the branch of t > 0.
decorr_fromBase(attempt, sleep) ==
    LET t == 3 * sleep - waitBase
    IN  IF t > 0 THEN {durationMin(waitCap, d + waitBase) : d \in randSecondDuration(t)}
        ELSE IF t < 0 THEN {durationMin(waitCap, d + waitBase) : d \in randSecondDuration(-t)}
        ELSE {waitBase}

\* waitAlgo.decorr: the durations it can return; the empty set when it panics.
decorr(attempt, sleep) ==
    LET t == 3 * sleep - waitBase
    IN  IF t > 0 THEN {durationMin(waitCap, d + waitBase) : d \in randSecondDuration(t)}
        ELSE IF t < 0 THEN {durationMin(waitCap, d + 3 * sleep) : d \in randSecondDuration(-t)}
        ELSE {waitBase}

\* ------------------------------------------------------------------- errors

Cause(kind, number, msg) == [kind |-> kind, Number |-> number, msg |-> msg]

NoCause == Cause("nil", "", <<>>)
DeadlineExceeded == Cause("context", "", <<"context deadline exceeded">>)
Canceled == Cause("context", "", <<"context canceled">>)
OCSPRevoked == Cause("*SnowflakeError", "ErrOCSPStatusRevoked", <<"certificate revoked">>)
OtherDriverError == Cause("*SnowflakeError", "ErrFailedToConnect", <<"failed to connect">>)
CertificateInvalid == Cause("x509.CertificateInvalidError", "", <<"x509:", "certificate is not valid">>)
UnknownAuthority == Cause("x509.UnknownAuthorityError", "", <<"x509:", "certificate signed by unknown authority">>)
CertificateExpired == Cause("*errors.errorString", "", <<"x509:", "server.example", "certificate is expired">>)
ConnectionRefused == Cause("*net.OpError", "", <<"dial tcp:", "connection refused">>)

NilErr == [type |-> "nil", Err |-> NoCause]
URLError(cause) == [type |-> "*url.Error", Err |-> cause]
\* An error that is no *url.Error: the cause itself.
PlainError(cause) == [type |-> "plain", Err |-> cause]

HasSuffix(s, suffix) ==
    /\ Len(s) >= Len(suffix)
    /\ SubSeq(s, Len(s) - Len(suffix) + 1, Len(s)) = suffix

\* Mutant: only the deadline, not the cancellation, stops the retries.
isRetryableError_deadlineOnly(err, goos) ==
    IF err.type = "*url.Error"
    THEN IF err.Err = DeadlineExceeded
         THEN [doExit |-> TRUE, err |-> PlainError(err.Err)]
         ELSE IF err.Err.kind = "*SnowflakeError" /\ err.Err.Number = "ErrOCSPStatusRevoked"
         THEN [doExit |-> TRUE, err |-> err]
         ELSE IF err.Err.kind = "x509.CertificateInvalidError"
         THEN [doExit |-> TRUE, err |-> err]
         ELSE IF err.Err.kind = "x509.UnknownAuthorityError"
         THEN [doExit |-> TRUE, err |-> err]
         ELSE IF /\ goos = "darwin"
                 /\ HasPrefix(err.Err.msg, <<"x509:">>)
                 /\ HasSuffix(err.Err.msg, <<"certificate is expired">>)
         THEN [doExit |-> TRUE, err |-> err]
         ELSE [doExit |-> FALSE, err |-> err]
    ELSE [doExit |-> FALSE, err |-> err]

\* Mutant: the expired certificate stops the retries on every system.
isRetryableError_anyOS(err, goos) ==
    IF err.type = "*url.Error"
    THEN IF err.Err = DeadlineExceeded \/ err.Err = Canceled
         THEN [doExit |-> TRUE, err |-> PlainError(err.Err)]
         ELSE IF err.Err.kind = "*SnowflakeError" /\ err.Err.Number = "ErrOCSPStatusRevoked"
         THEN [doExit |-> TRUE, err |-> err]
         ELSE IF err.Err.kind = "x509.CertificateInvalidError"
         THEN [doExit |-> TRUE, err |-> err]
         ELSE IF err.Err.kind = "x509.UnknownAuthorityError"
         THEN [doExit |-> TRUE, err |-> err]
         ELSE IF /\ HasPrefix(err.Err.msg, <<"x509:">>)
                 /\ HasSuffix(err.Err.msg, <<"certificate is expired">>)
         THEN [doExit |-> TRUE, err |-> err]
         ELSE [doExit |-> FALSE, err |-> err]
    ELSE [doExit |-> FALSE, err |-> err]

\* retryHTTP.isRetryableError: (doExit, err). goos is runtime.GOOS.
isRetryableError(err, goos) ==
    IF err.type = "*url.Error"
    THEN IF err.Err = DeadlineExceeded \/ err.Err = Canceled
         THEN [doExit |-> TRUE, err |-> PlainError(err.Err)]
         ELSE IF err.Err.kind = "*SnowflakeError" /\ err.Err.Number = "ErrOCSPStatusRevoked"
         THEN [doExit |-> TRUE, err |-> err]
         ELSE IF err.Err.kind = "x509.CertificateInvalidError"
         THEN [doExit |-> TRUE, err |-> err]
         ELSE IF err.Err.kind = "x509.UnknownAuthorityError"
         THEN [doExit |-> TRUE, err |-> err]
         ELSE IF /\ goos = "darwin"
                 /\ HasPrefix(err.Err.msg, <<"x509:">>)
                 /\ HasSuffix(err.Err.msg, <<"certificate is expired">>)
         THEN [doExit |-> TRUE, err |-> err]
         ELSE [doExit |-> FALSE, err |-> err]
    ELSE [doExit |-> FALSE, err |-> err]

\* fmt.Errorf("timeout after %s. HTTP Status: %v. Hanging?", r.timeout, status)
TimeoutStatusError(timeout, status) ==
    PlainError(Cause("*fmt.wrapError", "",
        <<"timeout after", Itoa(timeout), "HTTP Status:", Itoa(status), "Hanging?">>))

\* fmt.Errorf("timeout after %s. Hanging?", r.timeout)
TimeoutError(timeout) ==
    PlainError(Cause("*fmt.wrapError", "", <<"timeout after", Itoa(timeout), "Hanging?">>))

\* --------------------------------------------------------------- the state

VARIABLES
    \* the retryHTTP instance and its environment
    fullURL,              \* r.fullURL: [Path, RawQuery], shared with the mutators
    timeout,              \* r.timeout
    raise4XX,             \* r.raise4XX
    cfg,                  \* r.cfg: "nil" or its IncludeRetryReason
    client,               \* r.client: which transport is injected
    GOOS,                 \* runtime.GOOS of the build
    ctxErr,               \* r.ctx.Err(): NilErr until the context is done
    \* the locals of execute
    pc,                   \* "attempt", "backoff", "wait", "done", "panic"
    totalTimeout,
    retryCounter,
    sleepTime,
    clientStartTime,
    requestGUIDReplacer,
    retryCountUpdater,
    retryReasonUpdater,
    res,                  \* the named result res
    err,                  \* the err of the loop body (it shadows the named result)
    ret,                  \* what execute returned: [res, err]
    timerFired,           \* the timer await has elapsed
    uuids,                \* identifiers NewUUID has generated
    \* observation
    origURL,              \* the URL execute was called with
    attempts,             \* calls of r.client.Do
    computes,             \* calls of defaultWaitAlgo.decorr
    sleeps,               \* backoff waits begun
    sentGUIDs,            \* the request_guid of every request sent, in order
    sentURL,              \* the URL of the last request sent
    outcome,              \* the return path taken
    bodyCalls,            \* calls of r.bodyCreator
    slept,                \* the sum of the sleeps of the waits begun, when a budget is set
    \* the components outside execute
    classified,           \* one call of isRetryableError: its input and its result
    waited,               \* one call of waitAlgo.decorr: its input and its result
    mutex,                \* defaultWaitAlgo.mutex: its holder, 0 when it is free
    drawers,              \* the goroutines calling defaultWaitAlgo.decorr
    heartbeat             \* one call of heartbeatMain

\* What the steps of execute leave alone.
outside == <<classified, waited, mutex, drawers, heartbeat>>
config == <<timeout, raise4XX, cfg, client, GOOS, clientStartTime, origURL, outside>>
mutators == <<requestGUIDReplacer, retryCountUpdater, retryReasonUpdater, uuids>>
counters == <<attempts, computes, sleeps, bodyCalls, slept>>
sent == <<sentGUIDs, sentURL>>

vars == <<fullURL, timeout, raise4XX, cfg, client, GOOS, ctxErr, pc, totalTimeout,
          retryCounter, sleepTime, clientStartTime, requestGUIDReplacer,
          retryCountUpdater, retryReasonUpdater, res, err, ret, timerFired, uuids,
          origURL, attempts, computes, sleeps, sentGUIDs, sentURL, outcome, bodyCalls,
          slept, classified, waited, mutex, drawers, heartbeat>>

\* No call is under way in a component.
NoCall == [state |-> "none"]

\* The components outside execute are at rest.
OutsideIdle ==
    /\ classified = NoCall
    /\ waited = NoCall
    /\ mutex = 0
    /\ drawers = <<>>
    /\ heartbeat = NoCall

\* ------------------------------------------------------------------ inputs

Paths == {queryRequestPath, <<"session", "heartbeat">>}

RawQueries ==
    { <<Pair(requestGUIDKey, "g0"), Pair(requestIDKey, "r1")>>,
      <<Pair(requestIDKey, "r1")>>,
      <<Pair(requestGUIDKey, "g0"), Pair(BadEscapeKey, "")>>,
      <<Pair(clientStartTimeKey, "99"), Pair(requestGUIDKey, "g0"),
        Pair(retryCountKey, "7"), Pair(retryReasonKey, "429")>> }

Timeouts == {0, 1 * Second, 6 * Second}

Configs == {"nil", ConfigBoolTrue, ConfigBoolFalse}

\* currentTimeProvider.currentTime()
CurrentTimes == {1700}

Statuses == {200, 400, 429, 499, 500}

\* The transports: a net/http client, whose outcomes are free, and the stub
\* that answers HTTP 500 to every request.
Clients == {"http", "always500"}

BodyError == PlainError(Cause("*errors.errorString", "", <<"body creator failed">>))
RequestError == PlainError(Cause("*errors.errorString", "", <<"request function failed">>))

\* What r.client.Do can answer. An *http.Client wraps every error in a
\* *url.Error and answers no response with it; the error of a request whose
\* context is done wraps the context's error.
DoOutcomes(c, cerr) ==
    IF c = "always500" THEN {[res |-> Response(500), err |-> NilErr]}
    ELSE {[res |-> Response(st), err |-> NilErr] : st \in Statuses}
         \cup {[res |-> NilRes, err |-> URLError(cause)] :
                 cause \in {OCSPRevoked, CertificateInvalid,
                            UnknownAuthority, CertificateExpired, ConnectionRefused}}
         \cup (IF cerr # NilErr THEN {[res |-> NilRes, err |-> URLError(cerr.Err)]} ELSE {})

\* The calls of execute that are explored: every URL and Config with the
\* plain settings, and every setting of the loop with the plain URL.
PlainURL ==
    [Path |-> queryRequestPath,
     RawQuery |-> <<Pair(requestIDKey, "r1"), Pair(requestGUIDKey, "g0")>>]

Calls ==
    [url : [Path : Paths, RawQuery : RawQueries], cfg : Configs,
     timeout : {0}, raise4XX : {FALSE}, client : {"http"}, goos : {"linux"}]
    \cup
    [url : {PlainURL}, cfg : {"nil"},
     timeout : Timeouts, raise4XX : BOOLEAN, client : Clients, goos : {"linux", "darwin"}]

Init ==
    /\ \E call \in Calls :
        /\ fullURL = call.url
        /\ timeout = call.timeout
        /\ raise4XX = call.raise4XX
        /\ cfg = call.cfg
        /\ client = call.client
        /\ GOOS = call.goos
    /\ origURL = fullURL
    /\ ctxErr = NilErr
    /\ pc = "attempt"
    /\ totalTimeout = timeout
    /\ retryCounter = 0
    /\ sleepTime = 0
    /\ clientStartTime \in {Itoa(t) : t \in CurrentTimes}
    /\ requestGUIDReplacer = NilMutator
    /\ retryCountUpdater = NilMutator
    /\ retryReasonUpdater = NilMutator
    /\ res = NilRes
    /\ err = NilErr
    /\ ret = [res |-> NilRes, err |-> NilErr]
    /\ timerFired = FALSE
    /\ uuids = 0
    /\ attempts = 0
    /\ computes = 0
    /\ sleeps = 0
    /\ sentGUIDs = <<>>
    /\ sentURL = [Path |-> <<>>, RawQuery |-> <<>>]
    /\ outcome = "running"
    /\ bodyCalls = 0
    /\ slept = 0
    /\ OutsideIdle

\* ----------------------------------------------------------------- execute

Return(r, e, how) ==
    /\ pc' = "done"
    /\ ret' = [res |-> r, err |-> e]
    /\ outcome' = how

\* Mutant: the disjunction is grouped with raise4XX, so a 200 does not break.
exitLoop_misgrouped(r, raise) ==
    /\ (r.StatusCode = StatusOK \/ raise)
    /\ ~r.nil /\ r.StatusCode >= 400 /\ r.StatusCode < 500 /\ r.StatusCode # 429

\* Mutant: 429 is not excepted from the 4xx statuses that break.
exitLoop_with429(r, raise) ==
    \/ r.StatusCode = StatusOK
    \/ raise /\ ~r.nil /\ r.StatusCode >= 400 /\ r.StatusCode < 500

\* The condition of the break: success, or a 4xx other than 429 under raise4XX.
exitLoop(r, raise) ==
    \/ r.StatusCode = StatusOK
    \/ raise /\ ~r.nil /\ r.StatusCode >= 400 /\ r.StatusCode < 500 /\ r.StatusCode # 429

\* Mutant: a failure of the body creator is retried like a failed request.
Send_bodyFailureRetried ==
    /\ pc = "attempt"
    /\ \E b \in {"ok", "bodyCreator fails", "req fails"} :
        IF b # "ok"
        THEN /\ err' = (IF b = "req fails" THEN RequestError ELSE BodyError)
             /\ IF b = "req fails"
                THEN Return(NilRes, err', b)
                ELSE pc' = "backoff" /\ UNCHANGED <<ret, outcome>>
             /\ UNCHANGED <<res, attempts, sentGUIDs, sentURL>>
        ELSE \E o \in DoOutcomes(client, ctxErr) :
             /\ attempts' = attempts + 1
             /\ sentGUIDs' = Append(sentGUIDs, Get(Query(fullURL), requestGUIDKey))
             /\ sentURL' = fullURL
             /\ res' = o.res
             /\ err' = o.err
             /\ IF o.err # NilErr
                THEN LET verdict == isRetryableError(o.err, GOOS)
                     IN  IF verdict.doExit
                         THEN Return(o.res, verdict.err, "fatal")
                         ELSE pc' = "backoff" /\ UNCHANGED <<ret, outcome>>
                ELSE IF exitLoop(o.res, raise4XX)
                     THEN Return(o.res, NilErr, "response")
                     ELSE pc' = "backoff" /\ UNCHANGED <<ret, outcome>>
    /\ bodyCalls' = bodyCalls + 1
    /\ UNCHANGED <<fullURL, config, ctxErr, totalTimeout, retryCounter, sleepTime,
                   mutators, timerFired, computes, sleeps, slept>>

\* One attempt: the body, the request, r.client.Do and the verdict on its answer.
Send ==
    /\ pc = "attempt"
    /\ \E b \in {"ok", "bodyCreator fails", "req fails"} :
        IF b # "ok"
        THEN /\ err' = (IF b = "req fails" THEN RequestError ELSE BodyError)
             /\ Return(NilRes, err', b)
             /\ UNCHANGED <<res, attempts, sentGUIDs, sentURL>>
        ELSE \E o \in DoOutcomes(client, ctxErr) :
             /\ attempts' = attempts + 1
             /\ sentGUIDs' = Append(sentGUIDs, Get(Query(fullURL), requestGUIDKey))
             /\ sentURL' = fullURL
             /\ res' = o.res
             /\ err' = o.err
             /\ IF o.err # NilErr
                THEN LET verdict == isRetryableError(o.err, GOOS)
                     IN  IF verdict.doExit
                         THEN Return(o.res, verdict.err, "fatal")
                         ELSE pc' = "backoff" /\ UNCHANGED <<ret, outcome>>
                ELSE IF exitLoop(o.res, raise4XX)
                     THEN Return(o.res, NilErr, "response")
                     ELSE pc' = "backoff" /\ UNCHANGED <<ret, outcome>>
    /\ bodyCalls' = bodyCalls + 1
    /\ UNCHANGED <<fullURL, config, ctxErr, totalTimeout, retryCounter, sleepTime,
                   mutators, timerFired, computes, sleeps, slept>>

\* Mutant: the timeout error never embeds the status.
timeoutResult_noStatus(e, r, t) ==
    IF e # NilErr THEN e ELSE TimeoutError(t)

\* The error execute returns when the budget is used up.
timeoutResult(e, r, t) ==
    IF e # NilErr THEN e
    ELSE IF ~r.nil THEN TimeoutStatusError(t, r.StatusCode)
    ELSE TimeoutError(t)

\* Mutant: a budget of exactly zero is not used up.
budgetUsedUp_belowZero(remaining) == remaining < 0

\* if totalTimeout <= 0, after the sleep is subtracted.
budgetUsedUp(remaining) == remaining <= 0

\* After a failed attempt: the next sleep, the budget, the counter, the
\* mutators and the timer.
Backoff ==
    /\ pc = "backoff"
    /\ retryCounter < MaxRetries
    /\ IF decorr(retryCounter, sleepTime) = {}
       THEN /\ pc' = "panic"
            /\ outcome' = "panic"
            /\ UNCHANGED <<sleepTime, totalTimeout, computes, ret, retryCounter,
                           fullURL, mutators, sleeps, slept, timerFired>>
       ELSE \E s \in decorr(retryCounter, sleepTime) :
            /\ sleepTime' = s
            /\ computes' = computes + 1
            /\ totalTimeout' = (IF totalTimeout > 0 THEN totalTimeout - s ELSE totalTimeout)
            /\ IF totalTimeout > 0 /\ budgetUsedUp(totalTimeout')
               THEN /\ Return(NilRes, timeoutResult(err, res, timeout), "timeout")
                    /\ UNCHANGED <<retryCounter, fullURL, mutators, sleeps, slept,
                                   timerFired>>
               ELSE LET m == ApplyMutators(fullURL, requestGUIDReplacer, retryCountUpdater,
                                           retryReasonUpdater, retryCounter + 1, res, cfg,
                                           clientStartTime, uuids)
                    IN  /\ retryCounter' = retryCounter + 1
                        /\ fullURL' = m.url
                        /\ requestGUIDReplacer' = m.gr
                        /\ retryCountUpdater' = m.rc
                        /\ retryReasonUpdater' = m.rr
                        /\ uuids' = m.uuids
                        /\ sleeps' = sleeps + 1
                        /\ slept' = (IF timeout > 0 THEN slept + s ELSE slept)
                        /\ timerFired' = FALSE
                        /\ pc' = "wait"
                        /\ UNCHANGED <<ret, outcome>>
    /\ UNCHANGED <<config, ctxErr, res, err, attempts, bodyCalls, sent>>

\* The timer await elapses.
TimerElapse ==
    /\ pc = "wait"
    /\ ~timerFired
    /\ timerFired' = TRUE
    /\ UNCHANGED <<fullURL, config, ctxErr, pc, totalTimeout, retryCounter, sleepTime,
                   mutators, res, err, ret, counters, sent, outcome>>

\* select: case <-await.C
WaitTimer ==
    /\ pc = "wait"
    /\ timerFired
    /\ pc' = "attempt"
    /\ UNCHANGED <<fullURL, config, ctxErr, totalTimeout, retryCounter, sleepTime,
                   mutators, res, err, ret, timerFired, counters, sent, outcome>>

\* Mutant: the cancelled wait returns no response.
WaitCancel_nilResponse ==
    /\ pc = "wait"
    /\ ctxErr # NilErr
    /\ Return(NilRes, ctxErr, "cancelled")
    /\ UNCHANGED <<fullURL, config, ctxErr, totalTimeout, retryCounter, sleepTime,
                   mutators, res, err, timerFired, counters, sent>>

\* select: case <-r.ctx.Done()
WaitCancel ==
    /\ pc = "wait"
    /\ ctxErr # NilErr
    /\ Return(res, ctxErr, "cancelled")
    /\ UNCHANGED <<fullURL, config, ctxErr, totalTimeout, retryCounter, sleepTime,
                   mutators, res, err, timerFired, counters, sent>>

\* The caller cancels the context, or its deadline passes.
Cancel ==
    /\ pc \notin {"done", "panic"}
    /\ ctxErr = NilErr
    /\ ctxErr' \in {PlainError(Canceled), PlainError(DeadlineExceeded)}
    /\ UNCHANGED <<fullURL, config, pc, totalTimeout, retryCounter, sleepTime,
                   mutators, res, err, ret, timerFired, counters, sent, outcome>>

Next == Send \/ Backoff \/ TimerElapse \/ WaitTimer \/ WaitCancel \/ Cancel

Spec == Init /\ [][Next]_vars

\* ---------------------------------------------------- the other components

\* No execute is under way.
ExecuteIdle ==
    /\ fullURL = PlainURL
    /\ origURL = PlainURL
    /\ timeout = 0
    /\ raise4XX = FALSE
    /\ cfg = "nil"
    /\ client = "http"
    /\ GOOS = "linux"
    /\ ctxErr = NilErr
    /\ pc = "idle"
    /\ totalTimeout = 0
    /\ retryCounter = 0
    /\ sleepTime = 0
    /\ clientStartTime = ""
    /\ requestGUIDReplacer = NilMutator
    /\ retryCountUpdater = NilMutator
    /\ retryReasonUpdater = NilMutator
    /\ res = NilRes
    /\ err = NilErr
    /\ ret = [res |-> NilRes, err |-> NilErr]
    /\ timerFired = FALSE
    /\ uuids = 0
    /\ attempts = 0
    /\ computes = 0
    /\ sleeps = 0
    /\ sentGUIDs = <<>>
    /\ sentURL = [Path |-> <<>>, RawQuery |-> <<>>]
    /\ outcome = "idle"
    /\ bodyCalls = 0
    /\ slept = 0

executeVars ==
    <<fullURL, timeout, raise4XX, cfg, client, GOOS, ctxErr, pc, totalTimeout,
      retryCounter, sleepTime, clientStartTime, requestGUIDReplacer,
      retryCountUpdater, retryReasonUpdater, res, err, ret, timerFired, uuids,
      origURL, attempts, computes, sleeps, sentGUIDs, sentURL, outcome, bodyCalls,
      slept>>

\* ------------------------------------------------- isRetryableError by itself

\* Causes whose message has only one of the two marks of the expired
\* certificate, a cause that wraps the deadline error, and a cause that is
\* none of these.
ExpiredNoPrefix == Cause("*errors.errorString", "", <<"tls:", "certificate is expired">>)
ExpiredNoSuffix ==
    Cause("*errors.errorString", "", <<"x509:", "certificate has expired or is not yet valid">>)
WrappedDeadline == Cause("*fmt.wrapError", "", <<"read tcp:", "context deadline exceeded">>)
UnexpectedEOF == Cause("*errors.errorString", "", <<"unexpected EOF">>)

ClassifyCauses ==
    {DeadlineExceeded, Canceled, OCSPRevoked, OtherDriverError, CertificateInvalid,
     UnknownAuthority, CertificateExpired, ConnectionRefused, ExpiredNoPrefix,
     ExpiredNoSuffix, WrappedDeadline, UnexpectedEOF}

\* The errors r.client.Do can hand to isRetryableError: a *url.Error around a
\* cause, or the cause itself when the client is no net/http client.
ClassifyErrors == {URLError(c) : c \in ClassifyCauses} \cup {PlainError(c) : c \in ClassifyCauses}

OperatingSystems == {"linux", "darwin", "windows"}

ClassifyInit ==
    /\ ExecuteIdle
    /\ classified \in [state : {"called"}, err : ClassifyErrors, goos : OperatingSystems]
    /\ waited = NoCall
    /\ mutex = 0
    /\ drawers = <<>>
    /\ heartbeat = NoCall

\* isRetryableError returns.
Classify ==
    /\ classified.state = "called"
    /\ classified' = [state |-> "returned", err |-> classified.err, goos |-> classified.goos,
                      result |-> isRetryableError(classified.err, classified.goos)]
    /\ UNCHANGED <<executeVars, waited, mutex, drawers, heartbeat>>

ClassifyNext == Classify

SpecClassify == ClassifyInit /\ [][ClassifyNext]_vars

\* ----------------------------------------------------- waitAlgo.decorr by itself

MaxAttempt == 3

\* Previous sleeps: whole seconds up to the cap, and durations that are not a
\* whole number of seconds.
WaitSleeps ==
    {0, Second \div 2, 1 * Second, (3 * Second) \div 2, 2 * Second, (5 * Second) \div 2,
     5 * Second, 20 * Second, waitCap}

WaitInit ==
    /\ ExecuteIdle
    /\ classified = NoCall
    /\ waited \in [state : {"called"}, attempt : 0..MaxAttempt, sleep : WaitSleeps]
    /\ mutex = 0
    /\ drawers = <<>>
    /\ heartbeat = NoCall

\* defaultWaitAlgo.decorr returns, or panics in random.Int63n.
Decorr ==
    /\ waited.state = "called"
    /\ LET results == decorr(waited.attempt, waited.sleep)
       IN  IF results = {}
           THEN waited' = [waited EXCEPT !.state = "panicked"]
           ELSE \E d \in results :
                   waited' = [state |-> "returned", attempt |-> waited.attempt,
                              sleep |-> waited.sleep, result |-> d]
    /\ UNCHANGED <<executeVars, classified, mutex, drawers, heartbeat>>

WaitNext == Decorr

SpecWait == WaitInit /\ [][WaitNext]_vars

\* ------------------------------------------------------------- heartbeatMain

MaxBeats == 2

sessionExpiredCode == "390112"

\* What the keep-alive POST answers: a payload that reports success, one
\* that reports a failure with a code, or a body that is no JSON.
SuccessPayload == [body |-> "json", success |-> TRUE, code |-> ""]
FailurePayload(code) == [body |-> "json", success |-> FALSE, code |-> code]
InvalidJSON == [body |-> "invalid", success |-> FALSE, code |-> ""]

FailureCodes == {"390111", "390114", "390195", "403", "ErrFailedToHeartbeat"}

HeartbeatResponses ==
    {SuccessPayload, InvalidJSON, FailurePayload(sessionExpiredCode)}
        \cup {FailurePayload(c) : c \in FailureCodes}

\* What the FuncRenewSession of the snowflakeRestful answers: nil or its error.
RenewalFailed == PlainError(Cause("*SnowflakeError", "ErrFailedToAuth", <<"failed to renew">>))
RenewalTimedOut == PlainError(DeadlineExceeded)
RenewalOutcomes == {NilErr, RenewalFailed, RenewalTimedOut}

\* The renewal was not invoked.
NotInvoked == [type |-> "not invoked", Err |-> NoCause]

ParseError == PlainError(Cause("*json.SyntaxError", "", <<"invalid character">>))

FailedToHeartbeat(code) ==
    PlainError(Cause("*SnowflakeError", code, <<"Failed to heartbeat.">>))

\* Mutant: the driver error carries one fixed code, whatever the payload says.
interpret_fixedCode(response) ==
    IF response.body # "json" THEN [renew |-> FALSE, err |-> ParseError]
    ELSE IF response.success THEN [renew |-> FALSE, err |-> NilErr]
    ELSE IF response.code = sessionExpiredCode THEN [renew |-> TRUE, err |-> NilErr]
    ELSE [renew |-> FALSE, err |-> FailedToHeartbeat("ErrFailedToHeartbeat")]

\* What heartbeatMain makes of the response: whether to renew the session,
\* and the error to return when it does not.
interpret(response) ==
    IF response.body # "json" THEN [renew |-> FALSE, err |-> ParseError]
    ELSE IF response.success THEN [renew |-> FALSE, err |-> NilErr]
    ELSE IF response.code = sessionExpiredCode THEN [renew |-> TRUE, err |-> NilErr]
    ELSE [renew |-> FALSE, err |-> FailedToHeartbeat(response.code)]

\* Mutant: a failed renewal is swallowed.
afterRenewal_swallowed(renewalErr) == NilErr

\* What heartbeatMain returns after the renewal: the error of the renewal.
afterRenewal(renewalErr) == renewalErr

HeartbeatInit ==
    /\ ExecuteIdle
    /\ classified = NoCall
    /\ waited = NoCall
    /\ mutex = 0
    /\ drawers = <<>>
    /\ \E renewSession \in RenewalOutcomes :
        heartbeat = [state |-> "idle", beats |-> 0, FuncRenewSession |-> renewSession,
                     response |-> SuccessPayload, renewal |-> NotInvoked,
                     renewCalls |-> 0, err |-> NilErr]

\* heartbeatMain is called and its POST is answered.
HeartbeatPost ==
    /\ heartbeat.state \in {"idle", "returned"}
    /\ heartbeat.beats < MaxBeats
    /\ \E response \in HeartbeatResponses :
        heartbeat' = [heartbeat EXCEPT !.state = "posted", !.beats = @ + 1,
                                       !.response = response, !.renewal = NotInvoked,
                                       !.err = NilErr]
    /\ UNCHANGED <<executeVars, classified, waited, mutex, drawers>>

\* heartbeatMain reads the response: it returns, or goes on to the renewal.
HeartbeatInterpret ==
    /\ heartbeat.state = "posted"
    /\ LET verdict == interpret(heartbeat.response)
       IN  IF verdict.renew
           THEN heartbeat' = [heartbeat EXCEPT !.state = "renewing"]
           ELSE heartbeat' = [heartbeat EXCEPT !.state = "returned", !.err = verdict.err]
    /\ UNCHANGED <<executeVars, classified, waited, mutex, drawers>>

\* The renewal is invoked and heartbeatMain returns with its result.
HeartbeatRenew ==
    /\ heartbeat.state = "renewing"
    /\ LET renewalErr == heartbeat.FuncRenewSession
       IN  heartbeat' = [heartbeat EXCEPT !.state = "returned", !.renewal = renewalErr,
                                          !.renewCalls = @ + 1,
                                          !.err = afterRenewal(renewalErr)]
    /\ UNCHANGED <<executeVars, classified, waited, mutex, drawers>>

HeartbeatNext == HeartbeatPost \/ HeartbeatInterpret \/ HeartbeatRenew

SpecHeartbeat == HeartbeatInit /\ [][HeartbeatNext]_vars

\* ------------------------------------------- decorr called from many goroutines

NumDrawers == 2
MaxDraws == 1

Drawers == 1..NumDrawers

\* The sleep a goroutine first calls decorr with: the zero of execute, or a
\* duration for which random.Int63n panics.
FirstSleeps == {0, (3 * Second) \div 2}

\* Where a goroutine holds w.mutex: from Lock to the deferred Unlock.
Inside == {"locked", "drawn", "panicking"}

DrawInit ==
    /\ ExecuteIdle
    /\ classified = NoCall
    /\ waited = NoCall
    /\ heartbeat = NoCall
    /\ mutex = 0
    /\ drawers \in [Drawers -> [pc : {"idle"}, sleep : FirstSleeps, draws : {0}]]

\* A goroutine calls defaultWaitAlgo.decorr.
CallDecorr(p) ==
    /\ drawers[p].pc = "idle"
    /\ drawers[p].draws < MaxDraws
    /\ drawers' = [drawers EXCEPT ![p].pc = "locking"]
    /\ UNCHANGED <<executeVars, classified, waited, heartbeat, mutex>>

\* Mutant: the lock is taken without waiting for its holder.
Lock_noWait(p) ==
    /\ drawers[p].pc = "locking"
    /\ mutex' = p
    /\ drawers' = [drawers EXCEPT ![p].pc = "locked"]
    /\ UNCHANGED <<executeVars, classified, waited, heartbeat>>

\* w.mutex.Lock()
Lock(p) ==
    /\ drawers[p].pc = "locking"
    /\ mutex = 0
    /\ mutex' = p
    /\ drawers' = [drawers EXCEPT ![p].pc = "locked"]
    /\ UNCHANGED <<executeVars, classified, waited, heartbeat>>

\* The switch of decorr with its draw from the shared random source: a
\* result, or the panic of random.Int63n.
Draw(p) ==
    /\ drawers[p].pc = "locked"
    /\ LET results == decorr(drawers[p].draws, drawers[p].sleep)
       IN  IF results = {}
           THEN drawers' = [drawers EXCEPT ![p].pc = "panicking"]
           ELSE \E d \in results :
                   drawers' = [drawers EXCEPT ![p].pc = "drawn", ![p].sleep = d]
    /\ UNCHANGED <<executeVars, classified, waited, heartbeat, mutex>>

\* defer w.mutex.Unlock(): it runs when decorr returns and when it panics.
Unlock(p) ==
    /\ drawers[p].pc \in {"drawn", "panicking"}
    /\ mutex' = 0
    /\ drawers' = [drawers EXCEPT
                      ![p].pc = (IF drawers[p].pc = "drawn" THEN "idle" ELSE "panicked"),
                      ![p].draws = @ + 1]
    /\ UNCHANGED <<executeVars, classified, waited, heartbeat>>

DrawNext == \E p \in Drawers : CallDecorr(p) \/ Lock(p) \/ Draw(p) \/ Unlock(p)

\* A goroutine that holds the mutex goes on running, and sync.Mutex hands the
\* lock to a goroutine that keeps waiting for it (its starvation mode).
DrawFairness ==
    \A p \in Drawers :
        /\ SF_vars(Lock(p))
        /\ WF_vars(Draw(p))
        /\ WF_vars(Unlock(p))

SpecDraw == DrawInit /\ [][DrawNext]_vars /\ DrawFairness

\* ------------------------------------------------------------------ claims

\* The URL execute was called with carries a request_guid and a query string
\* that parses.
CarriesGUID(u) ==
    /\ ~ParseQueryFails(u.RawQuery)
    /\ Get(ParseQueryValues(u.RawQuery), requestGUIDKey) # ""

\* C1: when the URL carries a request_guid (and its query string parses), the
\* request_guid sent with an attempt differs from the request_guid sent with
\* every earlier attempt of the same execute call.
C1_GuidFreshOnEveryRetry ==
    CarriesGUID(origURL) =>
        \A i, j \in 1..Len(sentGUIDs) : i < j => sentGUIDs[i] # sentGUIDs[j]

\* The retryCount values of the last request sent.
SentRetryCount == ParseQueryValues(sentURL.RawQuery)[retryCountKey]

\* The number of pairs of a raw query string with the given key.
KeyCount(rawQuery, key) == Len(SelectSeq(rawQuery, LAMBDA p : p.k = key))

RetryCountIsRetryNumber ==
    /\ attempts = 1 => sentURL = origURL
    /\ attempts >= 2 =>
        /\ KeyCount(sentURL.RawQuery, retryCountKey) = 1
        /\ SentRetryCount = <<Itoa(attempts - 1)>>

\* C2, as claimed: for every query-execution-path request the first attempt
\* is sent with the URL as given, and the attempt after the n-th retry carries
\* exactly one retryCount, whose value is n.
C2_RetryCountOnEveryQueryRequest ==
    isQueryRequest(origURL) => RetryCountIsRetryNumber

\* C2, amended: the same for every query-execution-path request whose query
\* string url.ParseQuery accepts.
C2_RetryCountOnParsableQueryRequest ==
    (isQueryRequest(origURL) /\ ~ParseQueryFails(origURL.RawQuery)) =>
        RetryCountIsRetryNumber

\* A third attempt of a query request that came with a stale retryCount=7
\* carries the single retryCount=2.
C2_Witness ==
    /\ isQueryRequest(origURL)
    /\ Get(ParseQueryValues(origURL.RawQuery), retryCountKey) = "7"
    /\ attempts = 3
    /\ SentRetryCount = <<"2">>

\* C3: for a query-execution-path request whose retry reason is not disabled,
\* the URL of every retried attempt, at the moment it is about to be sent,
\* carries exactly one retryReason: the status of the answer to the attempt
\* just before it, or 0 when that attempt ended in a transport error.
C3_RetryReasonIsLastStatus ==
    (/\ isQueryRequest(origURL)
     /\ cfg # ConfigBoolFalse
     /\ pc = "attempt"
     /\ retryCounter >= 1) =>
        /\ KeyCount(fullURL.RawQuery, retryReasonKey) = 1
        /\ Query(fullURL)[retryReasonKey] =
              <<Itoa(IF err # NilErr THEN 0 ELSE res.StatusCode)>>

\* A second retry after a transport error, of a request that came with a
\* stale retryReason=429: it is about to be sent with retryReason=0.
C3_Witness ==
    /\ isQueryRequest(origURL)
    /\ cfg # ConfigBoolFalse
    /\ Get(ParseQueryValues(origURL.RawQuery), retryReasonKey) = "429"
    /\ pc = "attempt"
    /\ retryCounter = 2
    /\ err # NilErr
    /\ Query(fullURL)[retryReasonKey] = <<"0">>

\* Timestamps other than the one execute captured.
OtherStartTimes == {"0", "1699", "1701"}

\* The clientStartTime a query request carries on its retries: the one it
\* came with, or else the one captured when execute began.
ExpectedStartTime ==
    IF Has(Query(origURL), clientStartTimeKey)
    THEN Query(origURL)[clientStartTimeKey]
    ELSE <<clientStartTime>>

\* C4: ensureClientStartTimeIsSet leaves a URL that has a clientStartTime as
\* it is, whatever timestamp it is given; and every retried attempt of a
\* query-execution-path request carries one and the same clientStartTime, the
\* one captured before the first attempt (the one the URL came with, if any).
C4_ClientStartTimeNeverChanges ==
    /\ \A ts \in OtherStartTimes \cup {clientStartTime} :
          Has(Query(fullURL), clientStartTimeKey) =>
              ensureClientStartTimeIsSet(fullURL, ts) = fullURL
    /\ (isQueryRequest(origURL) /\ attempts >= 2) =>
          Query(sentURL)[clientStartTimeKey] = ExpectedStartTime

\* A third attempt of a query request that came without a clientStartTime
\* carries the captured one.
C4_Witness ==
    /\ isQueryRequest(origURL)
    /\ ~Has(Query(origURL), clientStartTimeKey)
    /\ attempts = 3
    /\ Query(sentURL)[clientStartTimeKey] = <<clientStartTime>>
    /\ ensureClientStartTimeIsSet(sentURL, "1701") = sentURL

\* C5: with no total timeout and no cancellation, attempts and backoff
\* waits alternate strictly, a retryable failure never ends the call, and an
\* answer of HTTP 200 after k failures ends it after k+1 attempts and k waits
\* with that response and a nil error.
C5_AttemptsAndWaitsAlternate ==
    (timeout = 0 /\ ctxErr = NilErr) =>
        /\ pc \in {"attempt", "wait"} => (sleeps = attempts /\ computes = attempts)
        /\ pc = "backoff" => (attempts = sleeps + 1 /\ computes = sleeps)
        /\ outcome \notin {"timeout", "cancelled"}
        /\ (attempts >= 1 /\ err = NilErr /\ res.StatusCode = StatusOK) =>
              /\ pc = "done"
              /\ ret = [res |-> Response(StatusOK), err |-> NilErr]
              /\ attempts = retryCounter + 1
              /\ sleeps = retryCounter
              /\ computes = retryCounter

\* Scenario A: two failures, then 200: three attempts, two waits, the 200
\* response and no error.
C5_Witness ==
    /\ timeout = 0
    /\ ctxErr = NilErr
    /\ pc = "done"
    /\ attempts = 3
    /\ sleeps = 2
    /\ ret = [res |-> Response(StatusOK), err |-> NilErr]

\* A status that ends the loop under raise4XX.
Raised4XX(st) == st >= 400 /\ st < 500 /\ st # 429

\* C6: when the last answer is a response: under raise4XX a status in
\* [400,500) other than 429 ends the call at once with that response and a nil
\* error, no backoff computed and no retry made for it; any other status
\* except 200 (429 and 5xx under raise4XX, every non-200 status without it)
\* does not end the call with a response: it is retried.
C6_Raise4XXEndsWithoutRetry ==
    (attempts >= 1 /\ err = NilErr /\ ~res.nil) =>
        /\ (raise4XX /\ Raised4XX(res.StatusCode)) =>
              /\ pc = "done"
              /\ outcome = "response"
              /\ ret = [res |-> res, err |-> NilErr]
              /\ computes = attempts - 1
              /\ sleeps = attempts - 1
              /\ retryCounter = attempts - 1
        /\ (res.StatusCode # StatusOK /\ ~(raise4XX /\ Raised4XX(res.StatusCode))) =>
              /\ outcome \in {"running", "timeout", "cancelled"}
              /\ pc = "done" => ret.res = (IF outcome = "cancelled" THEN res ELSE NilRes)

\* Under raise4XX the first answer, HTTP 400, is returned with no backoff.
C6_Witness ==
    /\ raise4XX
    /\ pc = "done"
    /\ attempts = 1
    /\ computes = 0
    /\ ret = [res |-> Response(400), err |-> NilErr]

\* C7: when the total timeout budget is used up, execute returns a timeout
\* error: the one that embeds the last HTTP status when a response was
\* observed, the generic one otherwise; never the transport error of the
\* failed attempt.
C7_TimeoutErrorOnExhaustion ==
    outcome = "timeout" =>
        ret.err = (IF ~res.nil THEN TimeoutStatusError(timeout, res.StatusCode)
                   ELSE TimeoutError(timeout))

\* Scenario B: the transport answers 500 to everything, the budget is 1 s.
ScenarioB == client = "always500" /\ timeout = 1 * Second

\* C8, as claimed: in scenario B the first sleep computed exceeds the budget,
\* so execute ends after one attempt and one sleep computation with the
\* timeout error that embeds HTTP 500.
C8_OneAttemptOneSleep ==
    (ScenarioB /\ computes >= 1) =>
        /\ pc = "done"
        /\ outcome = "timeout"
        /\ attempts = 1
        /\ computes = 1
        /\ sleepTime > timeout
        /\ ret = [res |-> NilRes, err |-> TimeoutStatusError(timeout, 500)]

\* C8, amended: in scenario B every sleep computed is a whole number of
\* seconds below the base of 5 s; a sleep of 0 s is waited and followed by
\* another attempt; the first sleep of 1 s or more uses up the budget, and
\* execute then ends with the timeout error that embeds HTTP 500, after as
\* many sleep computations as attempts.
C8_TimeoutAfterZeroSleeps ==
    ScenarioB =>
        /\ sleepTime \in {k * Second : k \in 0..4}
        /\ pc \in {"wait", "attempt"} => (sleepTime = 0 /\ computes = attempts)
        /\ (computes >= 1 /\ sleepTime >= timeout) =>
              /\ pc = "done"
              /\ outcome = "timeout"
              /\ computes = attempts
              /\ sleeps = attempts - 1
              /\ ret = [res |-> NilRes, err |-> TimeoutStatusError(timeout, 500)]
        /\ (pc = "done" /\ outcome \notin {"cancelled", "bodyCreator fails", "req fails"}) =>
              outcome = "timeout"

\* Scenario B ending in the timeout error only after a second attempt.
C8_Witness ==
    /\ ScenarioB
    /\ outcome = "timeout"
    /\ attempts = 2
    /\ computes = 2
    /\ ret.err = TimeoutStatusError(timeout, 500)

\* C9: a step execute takes out of a backoff wait whose context is done and
\* whose timer has not elapsed is the return of the last response (nil if
\* there is none) with the context's error; once it has returned so, no
\* attempt is made.
C9_CancelledWaitReturnsAtOnce ==
    [][/\ (pc = "wait" /\ ctxErr # NilErr /\ ~timerFired /\ pc' # pc) =>
            /\ pc' = "done"
            /\ ret' = [res |-> res, err |-> ctxErr]
            /\ attempts' = attempts
       /\ outcome = "cancelled" => (attempts' = attempts /\ pc' = "done")]_vars

\* A wait cancelled before its timer elapsed has returned the last response.
C9_Witness ==
    /\ outcome = "cancelled"
    /\ ~timerFired
    /\ ~ret.res.nil
    /\ ret.err = PlainError(Canceled)
    /\ attempts = 2

\* C10: when the answer to an attempt is the error of a done context
\* (cancelled or deadline exceeded), execute has returned with that context
\* error itself and makes no backoff for it.
C10_ContextErrorIsFatal ==
    (attempts >= 1 /\ err.type = "*url.Error" /\ err.Err \in {Canceled, DeadlineExceeded}) =>
        /\ pc = "done"
        /\ outcome = "fatal"
        /\ ret = [res |-> res, err |-> ctxErr]
        /\ ret.err = PlainError(err.Err)
        /\ computes = attempts - 1

\* A second attempt that failed on the cancelled context.
C10_Witness ==
    /\ outcome = "fatal"
    /\ attempts = 2
    /\ err = URLError(Canceled)
    /\ ret.err = PlainError(Canceled)

\* The causes that end the retries inside a *url.Error: the two context
\* errors, returned bare, and the certificate failures, returned wrapped.
StopBare == {DeadlineExceeded, Canceled}
StopAsIs(goos) ==
    {OCSPRevoked, CertificateInvalid, UnknownAuthority}
        \cup (IF goos = "darwin" THEN {CertificateExpired} ELSE {})

\* C11: isRetryableError stops with the bare context error for a *url.Error
\* around the deadline or the cancellation, stops with the error as it is for
\* a *url.Error around a revoked, invalid, unknown-authority or (on darwin
\* only) expired certificate, and says to go on, with the error as it is, for
\* every other error, the errors that are no *url.Error included.
C11_ClassifiedByCause ==
    classified.state = "returned" =>
        LET e == classified.err
            r == classified.result
        IN  IF e.type = "*url.Error" /\ e.Err \in StopBare
            THEN r = [doExit |-> TRUE, err |-> PlainError(e.Err)]
            ELSE IF e.type = "*url.Error" /\ e.Err \in StopAsIs(classified.goos)
            THEN r = [doExit |-> TRUE, err |-> e]
            ELSE r = [doExit |-> FALSE, err |-> e]

\* The expired certificate has stopped the retries on darwin.
C11_Witness ==
    /\ classified.state = "returned"
    /\ classified.err = URLError(CertificateExpired)
    /\ classified.goos = "darwin"
    /\ classified.result = [doExit |-> TRUE, err |-> URLError(CertificateExpired)]

\* C12: for every attempt and every previous sleep that is not negative,
\* whole seconds or not, decorr returns, and what it returns is a duration
\* from 0 to cap.
C12_DecorrReturnsWithinCap ==
    waited.state \in {"returned", "panicked"} =>
        /\ waited.state = "returned"
        /\ waited.result >= 0
        /\ waited.result <= waitCap

\* A step of execute that computes a sleep from a previous sleep of zero.
ComputesFromZero == computes' = computes + 1 /\ sleepTime = 0

RetriesUnderBudget == timeout > 0 /\ retryCounter' = retryCounter + 1

\* C14: under a budget the remaining budget is strictly smaller after every
\* retry, which is what keeps a call whose attempts all fail from retrying
\* for ever.
C14_BudgetShrinksOnEveryRetry ==
    [][RetriesUnderBudget => totalTimeout' < totalTimeout]_vars

\* C14, amended: the remaining budget never grows; a retry takes exactly its
\* sleep from it, which is nothing when the sleep drawn is zero; and once a
\* sleep was not zero every later sleep is three seconds or more.
C14_BudgetShrinksBySleep ==
    [][/\ totalTimeout' <= totalTimeout
       /\ RetriesUnderBudget =>
            /\ totalTimeout' = totalTimeout - sleepTime'
            /\ sleepTime > 0 => sleepTime' >= 3 * Second]_vars

\* Two retries under a budget have left the budget whole.
C14_Witness ==
    /\ timeout > 0
    /\ retryCounter = 2
    /\ totalTimeout = timeout
    /\ pc = "backoff"

\* C15: when the keep-alive response reports the expired session,
\* heartbeatMain invokes the renewal, and returns no error when the renewal
\* succeeds and the error of the renewal when it fails.
C15_ExpiryIsRenewed ==
    (heartbeat.state = "returned" /\ heartbeat.response = FailurePayload(sessionExpiredCode)) =>
        /\ heartbeat.renewal \in RenewalOutcomes
        /\ heartbeat.renewal = NilErr => heartbeat.err = NilErr
        /\ heartbeat.renewal # NilErr => heartbeat.err = heartbeat.renewal

\* A heartbeat has returned the error of the renewal it invoked.
C15_Witness ==
    /\ heartbeat.state = "returned"
    /\ heartbeat.response = FailurePayload(sessionExpiredCode)
    /\ heartbeat.renewal = RenewalFailed
    /\ heartbeat.err = RenewalFailed

NotSent == outcome \in {"bodyCreator fails", "req fails"}

\* C17: every attempt invokes the body creator once, before its request is
\* built and sent; when the body creator fails execute returns at once no
\* response and that error: no request is sent for the attempt, no backoff is
\* computed and nothing follows.
C17_BodyCreatorFailureReturnsAtOnce ==
    /\ bodyCalls = attempts + (IF NotSent THEN 1 ELSE 0)
    /\ outcome = "bodyCreator fails" =>
          /\ pc = "done"
          /\ ret = [res |-> NilRes, err |-> BodyError]
          /\ Len(sentGUIDs) = attempts
          /\ computes = attempts
          /\ sleeps = attempts
          /\ ~ENABLED Next

\* The body creator has failed on the third attempt.
C17_Witness ==
    /\ outcome = "bodyCreator fails"
    /\ attempts = 2
    /\ bodyCalls = 3
    /\ ~res.nil

\* C18: at most one goroutine is inside the draw of decorr at any time; the
\* mutex is held by the goroutine inside it and by nobody once decorr has
\* returned or panicked; and a goroutine that waits for the mutex gets it.
C18_DrawsAreExclusive ==
    /\ [](Cardinality({p \in DOMAIN drawers : drawers[p].pc \in Inside}) <= 1)
    /\ [](\A p \in DOMAIN drawers : drawers[p].pc \in Inside <=> mutex = p)
    /\ \A p \in Drawers :
          (p \in DOMAIN drawers /\ drawers[p].pc = "locking")
              ~> (p \in DOMAIN drawers /\ drawers[p].pc = "locked")

\* A goroutine waits for the mutex while its holder is panicking in the draw.
C18_Witness ==
    /\ DOMAIN drawers = Drawers
    /\ drawers[1].pc = "locking"
    /\ drawers[2].pc = "panicking"
    /\ mutex = 2

\* The URL has the parameters of the URL execute was called with, the value
\* of request_guid aside: the same path, the same values under every other
\* key, as many request_guid and as many malformed pairs, and nothing more.
SameButGUID(u) ==
    /\ u.Path = origURL.Path
    /\ \A key \in KeySet \ {requestGUIDKey} : Query(u)[key] = Query(origURL)[key]
    /\ KeyCount(u.RawQuery, requestGUIDKey) = KeyCount(origURL.RawQuery, requestGUIDKey)
    /\ KeyCount(u.RawQuery, BadEscapeKey) = KeyCount(origURL.RawQuery, BadEscapeKey)
    /\ Len(u.RawQuery) = Len(origURL.RawQuery)

\* C19: off the query path no retryCount, retryReason or clientStartTime is
\* added on any retry and the parameters of the URL stay what they were, the
\* value of request_guid aside; on the query path with the retry reason
\* disabled by the Config no retryReason is added.
C19_OnlyQueryRequestsAreAnnotated ==
    /\ ~isQueryRequest(origURL) =>
          /\ SameButGUID(fullURL)
          /\ attempts >= 1 => SameButGUID(sentURL)
    /\ (isQueryRequest(origURL) /\ cfg = ConfigBoolFalse) =>
          /\ Query(fullURL)[retryReasonKey] = Query(origURL)[retryReasonKey]
          /\ attempts >= 1 => Query(sentURL)[retryReasonKey] = Query(origURL)[retryReasonKey]

\* The third request off the query path has been sent with the second new
\* request_guid and with nothing else changed.
C19_Witness ==
    /\ ~isQueryRequest(origURL)
    /\ attempts = 3
    /\ origURL.RawQuery = <<Pair(requestGUIDKey, "g0"), Pair(requestIDKey, "r1")>>
    /\ sentURL.RawQuery = <<Pair(requestIDKey, "r1"), Pair(requestGUIDKey, NewUUID(2))>>

\* C20: under a budget T the sleeps of the waits begun add up to less than T
\* in every state: the sleep that would bring them to T or beyond is computed
\* but not waited, and no request follows it.
C20_SleptLessThanBudget ==
    timeout > 0 =>
        /\ slept < timeout
        /\ slept = timeout - totalTimeout \/ outcome = "timeout"
        /\ outcome = "timeout" =>
              /\ slept + sleepTime >= timeout
              /\ sleeps = computes - 1
              /\ attempts = computes
              /\ ~ENABLED Next

\* The budget is used up by the second sleep computed, after one wait.
C20_Witness ==
    /\ timeout > 0
    /\ outcome = "timeout"
    /\ sleeps = 1
    /\ slept > 0
    /\ slept + sleepTime > timeout

====
